---- MODULE Spec2Model ----
(***************************************************************************)
(* The translation job pipeline of the Language-translator backend.        *)
(*                                                                         *)
(* A submission (main.py translate_document) stores the source file,       *)
(* registers a Job Record in jobs_db and schedules one pipeline run.  The  *)
(* repository holds two pipelines over the same jobs_db:                   *)
(*   - run_translation_workflow (main.py), the one the endpoint schedules; *)
(*   - TranslationWorkflow.execute (workflow_manager.py), the graph        *)
(*     extractor -> translator -> exporter with the should_continue        *)
(*     router.                                                             *)
(* Both are modelled; a run is one or the other.  Every blocking call      *)
(* (extract, translate, export, file removal) is one step, taken together  *)
(* with the writes to jobs_db that follow it without another call.         *)
(*                                                                         *)
(* Text is a sequence of characters drawn from three classes: "a" (a       *)
(* printable character), " " (white space) and "x" (a control character:   *)
(* neither printable nor white space).                                     *)
(***************************************************************************)
EXTENDS Integers, Sequences, FiniteSets, TLC

VARIABLES
    jobs_db,     \* main.py:68   job id -> Job Record
    input_dir,   \* main.py:47   job ids whose source file exists in INPUT_DIR
    output_dir,  \* main.py:48   <<job id, language, format>> of the artifacts in OUTPUT_DIR
    task,        \* per job id: the locals of its pipeline run and its position
    calls,       \* per job id: the capability calls the run has made, in order
    http_response,  \* the answer to the latest POST /api/translate
    clean_io     \* a value handed to _clean_text and the results of cleaning it

vars == <<jobs_db, input_dir, output_dir, task, calls, http_response, clean_io>>

(* ------------------------------ bounds -------------------------------- *)
MaxLangs == 2     \* most comma separated tokens in the languages parameter
MaxBlocks == 2    \* most lines / paragraphs / tags of a source document
MaxTextLen == 3   \* most characters of a value handed to _clean_text on its own

JobIds == {"job1"}

(* --------------------------- configuration ---------------------------- *)
SUPPORTED_LANGS == {"spanish", "german", "hindi", "french", "italian",
                    "portuguese", "russian", "japanese", "chinese", "arabic"}
SUPPORTED_INPUTS == {".docx", ".pdf", ".epub", ".txt"}
SUPPORTED_OUTPUTS == {"docx", "pdf", "epub"}

\* The tokens a request may carry between the commas of its parameters, and
\* what l.strip().lower() makes of each.
LangTokens == {"spanish", " German", "klingon"}
LanguageParams == [1..1 -> LangTokens] \cup UNION {[1..k -> LangTokens] : k \in 2..MaxLangs}
FormatParams == { <<"docx">>, <<"txt">>, <<"docx", "EPUB ">>, <<"docx", "docx">> }
RequestExts == {".txt", ".docx", ".pdf", ".epub", ".png"}

StripLower(tok) ==
    CASE tok = " German" -> "german"
      [] tok = "EPUB "   -> "epub"
      [] OTHER           -> tok

\* str.title() of a language name.
Title(l) ==
    CASE l = "spanish" -> "Spanish"
      [] l = "german"  -> "German"
      [] OTHER         -> l

SeqsUpTo(S, n) == UNION {[1..k -> S] : k \in 0..n}

(* ------------------------------- text --------------------------------- *)
isprintable(ch) == ch \in {"a", " "}
isspace(ch) == ch \in {" ", "t"}

RECURSIVE lstrip(_)
lstrip(s) == IF s # <<>> /\ isspace(Head(s)) THEN lstrip(Tail(s)) ELSE s

RECURSIVE rstrip(_)
rstrip(s) ==
    IF s # <<>> /\ isspace(s[Len(s)]) THEN rstrip(SubSeq(s, 1, Len(s) - 1)) ELSE s

strip(s) == rstrip(lstrip(s))

None == "None"

\* A _clean_text that would trim before it drops the non-printable characters.
_clean_textStripsFirst(value) ==
    IF value = None THEN <<>>
    ELSE SelectSeq(strip(value), LAMBDA ch : isprintable(ch) \/ isspace(ch))

\* DocumentProcessor._clean_text
_clean_text(value) ==
    IF value = None THEN <<>>
    ELSE strip(SelectSeq(value, LAMBDA ch : isprintable(ch) \/ isspace(ch)))

(* ---------------------------- extraction ------------------------------ *)
\* Raw lines of a source document; the pdf branch keeps only lines longer
\* than three characters.
RawLines == { <<" ">>, <<"a">>, <<"x">>, <<"x", "x", "x", "x">>, <<"a", "x", "x", "x">> }
DocxStyles == {"Heading 1"}
EpubTags == {"h1"}
RawStyles(ext) ==
    CASE ext = ".docx" -> DocxStyles
      [] ext = ".epub" -> EpubTags
      [] OTHER         -> {"Normal"}

\* The parts (paragraphs, lines, tags) a document of type ext may hold.
RawDocs(ext) == SeqsUpTo([text : RawLines, style : RawStyles(ext)], MaxBlocks)

PdfLineThreshold == 3

\* A block {"text": ..., "style": ...} of cleaned text.
Block(text, style) == [text |-> _clean_text(text), style |-> style]

\* The pdf branch's reading of a list of lines.
pdf_lines(ls) ==
    LET kept == SelectSeq(ls, LAMBDA p : Len(strip(p.text)) > PdfLineThreshold)
    IN  [i \in 1..Len(kept) |-> Block(kept[i].text, "Normal")]

\* DocumentProcessor.extract_paragraphs: raw is the document's parts, ocr the
\* lines OCR reads from its pages, ocr_available is OCR_AVAILABLE.
extract_paragraphs(ext, raw, ocr, ocr_available) ==
    CASE ext = ".docx" ->
           LET kept == SelectSeq(raw, LAMBDA p : _clean_text(p.text) # <<>>)
           IN  [i \in 1..Len(kept) |-> Block(kept[i].text, kept[i].style)]
      [] ext = ".txt" ->
           LET kept == SelectSeq(raw, LAMBDA l : strip(l.text) # <<>>)
           IN  [i \in 1..Len(kept) |-> Block(kept[i].text, "Normal")]
      [] ext = ".pdf" ->
           IF pdf_lines(raw) = <<>> /\ ocr_available THEN pdf_lines(ocr) ELSE pdf_lines(raw)
      [] ext = ".epub" ->
           LET kept == SelectSeq(raw, LAMBDA t : _clean_text(t.text) # <<>>)
           IN  [i \in 1..Len(kept) |-> Block(kept[i].text, kept[i].style)]

\* The lines OCR reads: those of a pdf whose text layer gave nothing.
OcrDocs(ext, raw) ==
    IF ext = ".pdf" /\ pdf_lines(raw) = <<>> THEN RawDocs(ext) ELSE {<<>>}

\* Every result extract_paragraphs can return for a stored source file.  The
\* file's type and content are read by this call alone, so they are drawn
\* here, among the types a submission accepts.
Extractions ==
    UNION { UNION { { extract_paragraphs(ext, raw, ocr, ocr_available) :
                        ocr \in OcrDocs(ext, raw), ocr_available \in BOOLEAN } :
                    raw \in RawDocs(ext) } :
            ext \in {".docx", ".pdf", ".epub", ".txt"} }

(* ---------------------------- job records ----------------------------- *)
Absent == "<absent>"    \* a key the record's dict does not hold

\* The record translate_document registers.
QueuedRecord(langs) ==
    [status |-> "Queued", progress |-> 0, complete |-> FALSE, error |-> FALSE,
     message |-> Absent, languages |-> [i \in 1..Len(langs) |-> Title(langs[i])]]

NoState ==
    [status |-> "Starting", progress |-> 0, error |-> None, complete |-> FALSE,
     translations |-> <<>>]

IdleTask ==
    [pc |-> "idle", languages |-> <<>>, formats |-> <<>>,
     paragraphs |-> <<>>, lang_idx |-> 0, idx |-> 0, fmt_idx |-> 0,
     translated |-> <<>>, state |-> NoState]

\* A value handed to _clean_text: None (absent), or a string.
Absence == [absent |-> TRUE, text |-> <<>>]
Present(text) == [absent |-> FALSE, text |-> text]
ValueOf(v) == IF v.absent THEN None ELSE v.text

\* No value is being cleaned on its own.
NotCleaning == [value |-> Absence, results |-> <<>>]

\* No request has been answered yet.
NoResponse == [code |-> 0, detail |-> Absent]

Init ==
    /\ jobs_db = <<>>
    /\ input_dir = {}
    /\ output_dir = {}
    /\ task = [j \in JobIds |-> IdleTask]
    /\ calls = [j \in JobIds |-> <<>>]
    /\ http_response = NoResponse
    /\ clean_io = NotCleaning

(* ----------------------------- submission ----------------------------- *)
\* [x.strip().lower() for x in param.split(",") if x.strip().lower() in supported]
Accepted(tokens, supported) ==
    LET kept == SelectSeq(tokens, LAMBDA t : StripLower(t) \in supported)
    IN  [i \in 1..Len(kept) |-> StripLower(kept[i])]

\* A translate_document that would store the upload before validating the
\* request (mutation of the handler, used to test C13).
translate_documentStoresFirst(j, ext, languages, formats) ==
    LET langs == Accepted(languages, SUPPORTED_LANGS)
        fmts == Accepted(formats, SUPPORTED_OUTPUTS)
    IN  /\ input_dir' = input_dir \cup {j}
        /\ IF ext \notin SUPPORTED_INPUTS
           THEN /\ http_response' = [code |-> 400, detail |-> "Unsupported input format"]
                /\ UNCHANGED <<jobs_db, output_dir, task, calls, clean_io>>
           ELSE IF langs = <<>> \/ fmts = <<>>
           THEN /\ http_response' = [code |-> 400, detail |-> "Invalid language or format"]
                /\ UNCHANGED <<jobs_db, output_dir, task, calls, clean_io>>
           ELSE /\ jobs_db' = jobs_db @@ (j :> QueuedRecord(langs))
                /\ task' = [task EXCEPT ![j] = [IdleTask EXCEPT !.pc = "scheduled",
                                                  !.languages = langs, !.formats = fmts]]
                /\ http_response' = [code |-> 200, detail |-> j]
                /\ UNCHANGED <<output_dir, calls, clean_io>>

\* A translate_document that would schedule the run and leave the record to
\* the run's first update (mutation of the handler, used to test C15).
translate_documentLateRecord(j, ext, languages, formats) ==
    LET langs == Accepted(languages, SUPPORTED_LANGS)
        fmts == Accepted(formats, SUPPORTED_OUTPUTS)
    IN  IF ext \notin SUPPORTED_INPUTS
        THEN /\ http_response' = [code |-> 400, detail |-> "Unsupported input format"]
             /\ UNCHANGED <<jobs_db, input_dir, output_dir, task, calls, clean_io>>
        ELSE IF langs = <<>> \/ fmts = <<>>
        THEN /\ http_response' = [code |-> 400, detail |-> "Invalid language or format"]
             /\ UNCHANGED <<jobs_db, input_dir, output_dir, task, calls, clean_io>>
        ELSE /\ input_dir' = input_dir \cup {j}
             /\ task' = [task EXCEPT ![j] = [IdleTask EXCEPT !.pc = "scheduled",
                                               !.languages = langs, !.formats = fmts]]
             /\ http_response' = [code |-> 200, detail |-> j]
             /\ UNCHANGED <<jobs_db, output_dir, calls, clean_io>>

\* translate_document with the job id uuid4 gave it: the two validations, each
\* raising HTTP 400 before anything is stored, then the source file, the
\* record and the scheduling of the run.
translate_document(j, ext, languages, formats) ==
    LET langs == Accepted(languages, SUPPORTED_LANGS)
        fmts == Accepted(formats, SUPPORTED_OUTPUTS)
    IN  IF ext \notin SUPPORTED_INPUTS
        THEN /\ http_response' = [code |-> 400, detail |-> "Unsupported input format"]
             /\ UNCHANGED <<jobs_db, input_dir, output_dir, task, calls, clean_io>>
        ELSE IF langs = <<>> \/ fmts = <<>>
        THEN /\ http_response' = [code |-> 400, detail |-> "Invalid language or format"]
             /\ UNCHANGED <<jobs_db, input_dir, output_dir, task, calls, clean_io>>
        ELSE /\ input_dir' = input_dir \cup {j}
             /\ jobs_db' = jobs_db @@ (j :> QueuedRecord(langs))
             /\ task' = [task EXCEPT ![j] = [IdleTask EXCEPT !.pc = "scheduled",
                                               !.languages = langs, !.formats = fmts]]
             /\ http_response' = [code |-> 200, detail |-> j]
             /\ UNCHANGED <<output_dir, calls, clean_io>>

\* POST /api/translate, a request that is accepted.
Submit(j) ==
    /\ j \notin DOMAIN jobs_db
    /\ task[j].pc = "idle"
    /\ \E ext \in RequestExts,
          languages \in LanguageParams, formats \in FormatParams :
         /\ translate_document(j, ext, languages, formats)
         /\ http_response'.code = 200

\* POST /api/translate, a request that is rejected with HTTP 400.
Reject(j) ==
    /\ j \notin DOMAIN jobs_db
    /\ task[j].pc = "idle"
    /\ \E ext \in RequestExts,
          languages \in LanguageParams, formats \in FormatParams :
         /\ translate_document(j, ext, languages, formats)
         /\ http_response'.code = 400

(* ------------------------ translation engine -------------------------- *)
\* What the remote service may answer to one POST: translated content, a
\* response with no choices or no content, an error payload, or no answer
\* (a network failure, or the retry budget exhausted).
Responses == {"content", "no_content", "error_payload", "network_failure"}

\* The text the service returns for text in language lang, after _clean_output.
Translation(text, lang) == <<lang>> \o text

\* A translate without the test for empty text at its head: every call
\* sends a request.
translateAlwaysRequests(text, target_lang, response) ==
    CASE response = "network_failure" ->
            [requested |-> TRUE, raised |-> TRUE, value |-> "Featherless API request failed"]
      [] response = "error_payload" ->
            [requested |-> TRUE, raised |-> TRUE, value |-> "Unexpected error: API Error"]
      [] response = "no_content" ->
            [requested |-> TRUE, raised |-> FALSE, value |-> <<>>]
      [] OTHER ->
            [requested |-> TRUE, raised |-> FALSE, value |-> Translation(text, target_lang)]

\* TranslationEngine.translate, given the service's answer: whether a request
\* was sent, whether the call raised, the value returned or the error's text.
translate(text, target_lang, response) ==
    IF text = <<>> \/ strip(text) = <<>>
    THEN [requested |-> FALSE, raised |-> FALSE, value |-> <<>>]
    ELSE CASE response = "network_failure" ->
                [requested |-> TRUE, raised |-> TRUE,
                 value |-> "Featherless API request failed"]
           [] response = "error_payload" ->
                [requested |-> TRUE, raised |-> TRUE,
                 value |-> "Unexpected error: API Error"]
           [] response = "no_content" ->
                [requested |-> TRUE, raised |-> FALSE, value |-> <<>>]
           [] OTHER ->
                [requested |-> TRUE, raised |-> FALSE,
                 value |-> Translation(text, target_lang)]

\* The entry the run logs for a translate call on block number idx (0-based).
TranslateCall(lang, idx, text, r) ==
    [op |-> "translate", lang |-> lang, idx |-> idx, text |-> text,
     requested |-> r.requested, raised |-> r.raised]

(* ------------------------------ export -------------------------------- *)
\* What an export_docx / export_pdf / export_epub call may do: write the
\* file, raise, or return without the file being there (the case
\* save_by_format tests for after the call).
Renderings == {"written", "raises", "no_file"}

\* A save_by_format whose target name would leave the job id out.
save_by_formatSharedName(out, fmt, language, job_id, rendering) ==
    IF fmt \notin {"pdf", "docx", "epub"}
    THEN [files |-> out, raised |-> TRUE, value |-> "Invalid output format"]
    ELSE CASE rendering = "raises" ->
                [files |-> out, raised |-> TRUE, value |-> "rendering error"]
           [] rendering = "no_file" /\ <<"", language, fmt>> \notin out ->
                [files |-> out, raised |-> TRUE, value |-> "generation failed"]
           [] OTHER ->
                [files |-> out \cup {<<"", language, fmt>>}, raised |-> FALSE,
                 value |-> None]

\* DocumentProcessor.save_by_format: the artifacts afterwards, and whether it
\* raised and with which text.
save_by_format(out, fmt, language, job_id, rendering) ==
    IF fmt \notin {"pdf", "docx", "epub"}
    THEN [files |-> out, raised |-> TRUE, value |-> "Invalid output format"]
    ELSE CASE rendering = "raises" ->
                [files |-> out, raised |-> TRUE, value |-> "rendering error"]
           [] rendering = "no_file" /\ <<job_id, language, fmt>> \notin out ->
                [files |-> out, raised |-> TRUE, value |-> "generation failed"]
           [] OTHER ->
                [files |-> out \cup {<<job_id, language, fmt>>}, raised |-> FALSE,
                 value |-> None]

ExportCall(lang, fmt, raised) ==
    [op |-> "export", lang |-> lang, fmt |-> fmt, raised |-> raised]

(* ------------------- main.py: run_translation_workflow ---------------- *)
\* A progress that forgets the languages already done.
MainProgressPerLanguage(lang_idx, idx, n, total_langs) ==
    10 + (80 * idx) \div (n * total_langs)

\* progress = 10 + int(((lang_idx + idx / len(paragraphs)) / total_langs) * 80)
MainProgress(lang_idx, idx, n, total_langs) ==
    10 + (80 * (lang_idx * n + idx)) \div (n * total_langs)

\* An except clause that leaves complete as it was.
MainFailedNotComplete(rec, msg) ==
    [rec EXCEPT !.status = "Failed", !.error = TRUE, !.message = msg]

\* An except clause that resets the progress of the failed job.
MainFailedResetsProgress(rec, msg) ==
    [rec EXCEPT !.status = "Failed", !.error = TRUE, !.complete = TRUE,
                !.message = msg, !.progress = 0]

\* The except clause's update of the record.
MainFailed(rec, msg) ==
    [rec EXCEPT !.status = "Failed", !.error = TRUE, !.complete = TRUE,
                !.message = msg]

\* The first statement of the run.
MainStart(j) ==
    /\ task[j].pc = "scheduled"
    /\ jobs_db' = [jobs_db EXCEPT ![j].status = "Extracting text", ![j].progress = 5]
    /\ task' = [task EXCEPT ![j].pc = "m_extract"]
    /\ UNCHANGED <<input_dir, output_dir, calls, http_response, clean_io>>

ExtractCall(raised, blocks) == [op |-> "extract", raised |-> raised, blocks |-> blocks]

\* processor.extract_paragraphs(file_path) and the test of its result.
MainExtract(j) ==
    /\ task[j].pc = "m_extract"
    /\ \/ /\ calls' = [calls EXCEPT ![j] = Append(@, ExtractCall(TRUE, 0))]
          /\ jobs_db' = [jobs_db EXCEPT ![j] = MainFailed(@, "extraction error")]
          /\ task' = [task EXCEPT ![j].pc = "m_finally"]
       \/ \E paragraphs \in Extractions :
            /\ calls' = [calls EXCEPT ![j] = Append(@, ExtractCall(FALSE, Len(paragraphs)))]
            /\ IF paragraphs = <<>>
               THEN /\ jobs_db' = [jobs_db EXCEPT
                                     ![j] = MainFailed(@, "Empty or unreadable document")]
                    /\ task' = [task EXCEPT ![j].pc = "m_finally"]
               ELSE /\ jobs_db' = jobs_db
                    /\ task' = [task EXCEPT ![j].pc = "m_lang", ![j].paragraphs = paragraphs,
                                            ![j].lang_idx = 0]
    /\ UNCHANGED <<input_dir, output_dir, http_response, clean_io>>

\* A loop over the paragraphs that would start at the second one.
MainBeginLangSkipsFirstBlock(j) ==
    /\ task[j].pc = "m_lang"
    /\ LET lang == task[j].languages[task[j].lang_idx + 1]
       IN  jobs_db' = [jobs_db EXCEPT ![j].status = "Translating " \o Title(lang)]
    /\ task' = [task EXCEPT ![j].pc = "m_block", ![j].translated = <<>>,
                            ![j].idx = IF Len(task[j].paragraphs) > 1 THEN 1 ELSE 0]
    /\ UNCHANGED <<input_dir, output_dir, calls, http_response, clean_io>>

\* The head of the loop over the languages.
MainBeginLang(j) ==
    /\ task[j].pc = "m_lang"
    /\ LET lang == task[j].languages[task[j].lang_idx + 1]
       IN  jobs_db' = [jobs_db EXCEPT ![j].status = "Translating " \o Title(lang)]
    /\ task' = [task EXCEPT ![j].pc = "m_block", ![j].translated = <<>>, ![j].idx = 0]
    /\ UNCHANGED <<input_dir, output_dir, calls, http_response, clean_io>>

\* One turn of the loop over the paragraphs.
MainTranslateBlock(j) ==
    /\ task[j].pc = "m_block"
    /\ \E response \in Responses :
         LET t == task[j]
             lang == t.languages[t.lang_idx + 1]
             para == t.paragraphs[t.idx + 1]
             r == translate(para.text, lang, response)
             n == Len(t.paragraphs)
         IN  /\ calls' = [calls EXCEPT ![j] = Append(@, TranslateCall(lang, t.idx, para.text, r))]
             /\ IF r.raised
                THEN /\ jobs_db' = [jobs_db EXCEPT ![j] = MainFailed(@, r.value)]
                     /\ task' = [task EXCEPT ![j].pc = "m_finally"]
                ELSE /\ jobs_db' = [jobs_db EXCEPT ![j].progress =
                                      MainProgress(t.lang_idx, t.idx, n, Len(t.languages))]
                     /\ task' = [task EXCEPT
                                   ![j].translated =
                                       Append(@, [text |-> r.value, style |-> para.style]),
                                   ![j].idx = @ + 1,
                                   ![j].pc = IF t.idx + 1 = n THEN "m_export" ELSE "m_block"]
    /\ UNCHANGED <<input_dir, output_dir, http_response, clean_io>>

\* The status written before the loop over the formats.
MainBeginExport(j) ==
    /\ task[j].pc = "m_export"
    /\ LET lang == task[j].languages[task[j].lang_idx + 1]
       IN  jobs_db' = [jobs_db EXCEPT ![j].status = "Exporting " \o Title(lang)]
    /\ task' = [task EXCEPT ![j].pc = "m_fmt", ![j].fmt_idx = 0]
    /\ UNCHANGED <<input_dir, output_dir, calls, http_response, clean_io>>

\* One turn of the loop over the formats.
MainExport(j) ==
    /\ task[j].pc = "m_fmt"
    /\ \E rendering \in Renderings :
         LET t == task[j]
             lang == t.languages[t.lang_idx + 1]
             fmt == t.formats[t.fmt_idx + 1]
             r == save_by_format(output_dir, fmt, lang, j, rendering)
             last_fmt == t.fmt_idx + 1 = Len(t.formats)
             last_lang == t.lang_idx + 1 = Len(t.languages)
         IN  /\ calls' = [calls EXCEPT ![j] = Append(@, ExportCall(lang, fmt, r.raised))]
             /\ output_dir' = r.files
             /\ IF r.raised
                THEN /\ jobs_db' = [jobs_db EXCEPT ![j] = MainFailed(@, r.value)]
                     /\ task' = [task EXCEPT ![j].pc = "m_finally"]
                ELSE /\ jobs_db' = jobs_db
                     /\ task' = [task EXCEPT
                                   ![j].fmt_idx = @ + 1,
                                   ![j].lang_idx = IF last_fmt THEN @ + 1 ELSE @,
                                   ![j].pc = IF ~last_fmt THEN "m_fmt"
                                             ELSE IF last_lang THEN "m_complete"
                                             ELSE "m_lang"]
    /\ UNCHANGED <<input_dir, http_response, clean_io>>

\* The update after the loops.
MainComplete(j) ==
    /\ task[j].pc = "m_complete"
    /\ jobs_db' = [jobs_db EXCEPT ![j].status = "Completed", ![j].progress = 100,
                                  ![j].complete = TRUE,
                                  ![j].message = "All translations generated successfully."]
    /\ task' = [task EXCEPT ![j].pc = "m_finally"]
    /\ UNCHANGED <<input_dir, output_dir, calls, http_response, clean_io>>

\* A finally clause that reports the cleanup in the record.
MainFinallyWritesRecord(j) ==
    /\ task[j].pc = "m_finally"
    /\ IF j \in input_dir
       THEN \E removed \in BOOLEAN :
              /\ input_dir' = IF removed THEN input_dir \ {j} ELSE input_dir
              /\ calls' = [calls EXCEPT ![j] = Append(@, [op |-> "remove", raised |-> ~removed])]
              /\ jobs_db' = [jobs_db EXCEPT ![j].message =
                               IF removed THEN "Source file removed" ELSE "Cleanup failed"]
       ELSE UNCHANGED <<input_dir, calls, jobs_db>>
    /\ task' = [task EXCEPT ![j].pc = "done"]
    /\ UNCHANGED <<output_dir, http_response, clean_io>>

\* A finally clause that would turn a failed removal into a failed job.
MainFinallyFailureMarksFailed(j) ==
    /\ task[j].pc = "m_finally"
    /\ IF j \in input_dir
       THEN \E removed \in BOOLEAN :
              /\ input_dir' = IF removed THEN input_dir \ {j} ELSE input_dir
              /\ calls' = [calls EXCEPT ![j] = Append(@, [op |-> "remove", raised |-> ~removed])]
              /\ jobs_db' = IF removed THEN jobs_db
                            ELSE [jobs_db EXCEPT ![j] = MainFailed(@, "cleanup failed")]
       ELSE UNCHANGED <<input_dir, calls, jobs_db>>
    /\ task' = [task EXCEPT ![j].pc = "done"]
    /\ UNCHANGED <<output_dir, http_response, clean_io>>

\* The finally clause: os.remove may fail, and then the file stays.
MainFinally(j) ==
    /\ task[j].pc = "m_finally"
    /\ IF j \in input_dir
       THEN \E removed \in BOOLEAN :
              /\ input_dir' = IF removed THEN input_dir \ {j} ELSE input_dir
              /\ calls' = [calls EXCEPT ![j] = Append(@, [op |-> "remove", raised |-> ~removed])]
       ELSE UNCHANGED <<input_dir, calls>>
    /\ task' = [task EXCEPT ![j].pc = "done"]
    /\ UNCHANGED <<jobs_db, output_dir, http_response, clean_io>>

(* ------------- workflow_manager.py: TranslationWorkflow --------------- *)
\* state.get("error") as a condition: None and the empty string are false.
Truthy(x) == x # None /\ x # ""

\* WorkflowNodes._update_db
_update_db(db, jid, state, message) ==
    IF jid \in DOMAIN db
    THEN [db EXCEPT ![jid].status = state.status, ![jid].progress = state.progress,
                    ![jid].message = message, ![jid].complete = state.complete,
                    ![jid].error = (state.error # None)]
    ELSE db

\* The except clause of each node.
NodeFailed(state, msg) == [state EXCEPT !.error = msg, !.status = "Failed"]

\* should_continue
should_continue(state) == IF Truthy(state.error) THEN "end" ELSE "continue"

\* state["progress"] = int(10 + ((idx + 1) / total_langs) * 70)
GraphProgress(idx, total_langs) == 10 + (70 * (idx + 1)) \div total_langs

\* state["translations"][lang] = translated_data, in a dict that keeps the
\* order in which its keys were first set.
SetTranslation(translations, lang, data) ==
    IF \E k \in 1..Len(translations) : translations[k].lang = lang
    THEN [k \in 1..Len(translations) |->
             IF translations[k].lang = lang THEN [lang |-> lang, paras |-> data]
             ELSE translations[k]]
    ELSE Append(translations, [lang |-> lang, paras |-> data])

\* extract_node up to its call of the processor.
GraphStart(j) ==
    /\ task[j].pc = "scheduled"
    /\ LET state == [task[j].state EXCEPT !.status = "Processing", !.progress = 10]
       IN  /\ jobs_db' = _update_db(jobs_db, j, state, "Extracting content and structure...")
           /\ task' = [task EXCEPT ![j].state = state, ![j].pc = "g_extract"]
    /\ UNCHANGED <<input_dir, output_dir, calls, http_response, clean_io>>

\* The rest of extract_node, and the edge out of it.
GraphExtract(j) ==
    /\ task[j].pc = "g_extract"
    /\ IF j \notin input_dir
       THEN /\ task' = [task EXCEPT ![j].state = NodeFailed(@, "Source file missing"),
                                    ![j].pc = "g_cleanup"]
            /\ calls' = calls
       ELSE \/ /\ calls' = [calls EXCEPT ![j] = Append(@, ExtractCall(TRUE, 0))]
               /\ task' = [task EXCEPT ![j].state = NodeFailed(@, "extraction error"),
                                       ![j].pc = "g_cleanup"]
            \/ \E paragraphs \in Extractions :
                 /\ calls' = [calls EXCEPT ![j] = Append(@, ExtractCall(FALSE, Len(paragraphs)))]
                 /\ IF paragraphs = <<>>
                    THEN task' = [task EXCEPT
                                    ![j].state = NodeFailed(@,
                                        "Document appears to be empty or unreadable."),
                                    ![j].pc = "g_cleanup"]
                    ELSE task' = [task EXCEPT
                                    ![j].paragraphs = paragraphs,
                                    ![j].pc = IF should_continue(task[j].state) = "continue"
                                              THEN "g_translate" ELSE "g_cleanup"]
    /\ UNCHANGED <<jobs_db, input_dir, output_dir, http_response, clean_io>>

\* translate_node before its loop.
GraphTranslateNode(j) ==
    /\ task[j].pc = "g_translate"
    /\ IF Truthy(task[j].state.error)
       THEN task' = [task EXCEPT ![j].pc = "g_cleanup"]
       ELSE task' = [task EXCEPT ![j].state.status = "Translating",
                                 ![j].state.translations = <<>>,
                                 ![j].lang_idx = 0, ![j].pc = "g_lang"]
    /\ UNCHANGED <<jobs_db, input_dir, output_dir, calls, http_response, clean_io>>

\* The head of translate_node's loop over the languages.
GraphBeginLang(j) ==
    /\ task[j].pc = "g_lang"
    /\ LET lang == task[j].languages[task[j].lang_idx + 1]
       IN  jobs_db' = _update_db(jobs_db, j, task[j].state,
                                 "Translating to " \o Title(lang) \o "...")
    /\ task' = [task EXCEPT ![j].translated = <<>>, ![j].idx = 0, ![j].pc = "g_block"]
    /\ UNCHANGED <<input_dir, output_dir, calls, http_response, clean_io>>

\* The task after translated_data has its last block: the end of the loop
\* body over the languages, and after the last language the edge to the
\* exporter.
GraphLangDone(t, data) ==
    LET lang == t.languages[t.lang_idx + 1]
        total_langs == Len(t.languages)
        state == [t.state EXCEPT
                    !.translations = SetTranslation(@, lang, data),
                    !.progress = GraphProgress(t.lang_idx, total_langs)]
    IN  [t EXCEPT !.translated = data, !.state = state, !.lang_idx = @ + 1,
                  !.pc = IF t.lang_idx + 1 < total_langs THEN "g_lang"
                         ELSE IF should_continue(state) = "continue" THEN "g_export"
                         ELSE "g_cleanup"]

\* One turn of translate_node's loop over the paragraphs.
GraphTranslateBlock(j) ==
    /\ task[j].pc = "g_block"
    /\ LET t == task[j]
           lang == t.languages[t.lang_idx + 1]
           p == t.paragraphs[t.idx + 1]
           text_to_translate == strip(p.text)
           last == t.idx + 1 = Len(t.paragraphs)
           After(data) == IF last THEN GraphLangDone([t EXCEPT !.idx = @ + 1], data)
                          ELSE [t EXCEPT !.translated = data, !.idx = @ + 1]
       IN  IF text_to_translate = <<>>
           THEN /\ task' = [task EXCEPT ![j] =
                              After(Append(t.translated, [text |-> <<>>, style |-> p.style]))]
                /\ calls' = calls
           ELSE \E response \in Responses :
                  LET r == translate(text_to_translate, lang, response)
                  IN  /\ calls' = [calls EXCEPT ![j] =
                                     Append(@, TranslateCall(lang, t.idx, text_to_translate, r))]
                      /\ IF r.raised
                         THEN task' = [task EXCEPT ![j].state = NodeFailed(@, r.value),
                                                   ![j].pc = "g_cleanup"]
                         ELSE task' = [task EXCEPT ![j] =
                                         After(Append(t.translated,
                                                      [text |-> r.value, style |-> p.style]))]
    /\ UNCHANGED <<jobs_db, input_dir, output_dir, http_response, clean_io>>

\* export_node before its loops.
GraphBeginExport(j) ==
    /\ task[j].pc = "g_export"
    /\ IF Truthy(task[j].state.error)
       THEN /\ task' = [task EXCEPT ![j].pc = "g_cleanup"]
            /\ jobs_db' = jobs_db
       ELSE LET state == [task[j].state EXCEPT !.status = "Exporting"]
            IN  /\ jobs_db' = _update_db(jobs_db, j, state, "Generating final files...")
                /\ task' = [task EXCEPT ![j].state = state, ![j].lang_idx = 0,
                                        ![j].fmt_idx = 0,
                                        ![j].pc = IF state.translations = <<>>
                                                  THEN "g_complete" ELSE "g_fmt"]
    /\ UNCHANGED <<input_dir, output_dir, calls, http_response, clean_io>>

\* What export_node's if/elif chain does for one format: the artifacts
\* afterwards and whether the export call raised.
export_one(out, fmt, lang, job_id, rendering) ==
    IF fmt \notin {"docx", "pdf", "epub"} THEN [files |-> out, raised |-> FALSE]
    ELSE CASE rendering = "raises"  -> [files |-> out, raised |-> TRUE]
           [] rendering = "no_file" -> [files |-> out, raised |-> FALSE]
           [] OTHER -> [files |-> out \cup {<<job_id, lang, fmt>>}, raised |-> FALSE]

\* One turn of export_node's inner loop, over the formats.
GraphExport(j) ==
    /\ task[j].pc = "g_fmt"
    /\ \E rendering \in Renderings :
         LET t == task[j]
             lang == t.state.translations[t.lang_idx + 1].lang
             fmt == t.formats[t.fmt_idx + 1]
             r == export_one(output_dir, fmt, lang, j, rendering)
             last_fmt == t.fmt_idx + 1 = Len(t.formats)
             last_lang == t.lang_idx + 1 = Len(t.state.translations)
         IN  /\ calls' = [calls EXCEPT ![j] = Append(@, ExportCall(lang, fmt, r.raised))]
             /\ output_dir' = r.files
             /\ IF r.raised
                THEN task' = [task EXCEPT ![j].state = NodeFailed(@, "rendering error"),
                                          ![j].pc = "g_cleanup"]
                ELSE task' = [task EXCEPT
                                ![j].fmt_idx = IF last_fmt THEN 0 ELSE @ + 1,
                                ![j].lang_idx = IF last_fmt THEN @ + 1 ELSE @,
                                ![j].pc = IF ~last_fmt THEN "g_fmt"
                                          ELSE IF last_lang THEN "g_complete"
                                          ELSE "g_fmt"]
    /\ UNCHANGED <<jobs_db, input_dir, http_response, clean_io>>

\* The end of export_node.
GraphComplete(j) ==
    /\ task[j].pc = "g_complete"
    /\ LET state == [task[j].state EXCEPT !.status = "Completed", !.progress = 100,
                                          !.complete = TRUE]
       IN  /\ jobs_db' = _update_db(jobs_db, j, state, "Job finished successfully.")
           /\ task' = [task EXCEPT ![j].state = state, ![j].pc = "g_cleanup"]
    /\ UNCHANGED <<input_dir, output_dir, calls, http_response, clean_io>>

\* TranslationWorkflow.execute after the graph has run: unlink may fail, the
\* failure is logged and the file stays.
GraphCleanup(j) ==
    /\ task[j].pc = "g_cleanup"
    /\ IF j \in input_dir
       THEN \E removed \in BOOLEAN :
              /\ input_dir' = IF removed THEN input_dir \ {j} ELSE input_dir
              /\ calls' = [calls EXCEPT ![j] = Append(@, [op |-> "remove", raised |-> ~removed])]
       ELSE UNCHANGED <<input_dir, calls>>
    /\ task' = [task EXCEPT ![j].pc = "done"]
    /\ UNCHANGED <<jobs_db, output_dir, http_response, clean_io>>

(* ------------------------ status and download ------------------------- *)
\* The ids a client may ask about: one the service returned, or any other.
LookupIds == JobIds \cup {"unknown"}
DownloadFormats == {"docx", "EPUB ", "txt"}

\* GET /api/status/{job_id}: the record, or 404 for an id not in jobs_db.
get_status(job_id) ==
    IF job_id \notin DOMAIN jobs_db
    THEN [code |-> 404, detail |-> "Job not found"]
    ELSE [code |-> 200, detail |-> jobs_db[job_id]]

\* GET /api/download/{job_id}/{language}?file_format=: the artifact, or the
\* error of the first test that fails.
download_translation(job_id, language, file_format) ==
    LET fmt == StripLower(file_format)
        lang == StripLower(language)
    IN  IF job_id \notin DOMAIN jobs_db \/ ~jobs_db[job_id].complete
        THEN [code |-> 404, detail |-> "File not ready"]
        ELSE IF fmt \notin SUPPORTED_OUTPUTS
        THEN [code |-> 400, detail |-> "Invalid format"]
        ELSE IF <<job_id, lang, fmt>> \notin output_dir
        THEN [code |-> 404, detail |-> "File not found"]
        ELSE [code |-> 200, detail |-> <<job_id, lang, fmt>>]

\* The two read-only handlers answer and leave the state alone; what they
\* answer to each request is get_status and download_translation above.
GetStatus(j) ==
    /\ get_status(j).code \in {200, 404}
    /\ UNCHANGED vars

Download(j) ==
    /\ download_translation(j, "spanish", "docx").code \in {200, 400, 404}
    /\ UNCHANGED vars

Next ==
    \E j \in JobIds :
        \/ Submit(j)
        \/ Reject(j)
        \/ MainStart(j)
        \/ MainExtract(j)
        \/ MainBeginLang(j)
        \/ MainTranslateBlock(j)
        \/ MainBeginExport(j)
        \/ MainExport(j)
        \/ MainComplete(j)
        \/ MainFinally(j)
        \/ GraphStart(j)
        \/ GraphExtract(j)
        \/ GraphTranslateNode(j)
        \/ GraphBeginLang(j)
        \/ GraphTranslateBlock(j)
        \/ GraphBeginExport(j)
        \/ GraphExport(j)
        \/ GraphComplete(j)
        \/ GraphCleanup(j)
        \/ GetStatus(j)
        \/ Download(j)

Spec == Init /\ [][Next]_vars

\* The steps of the pipeline run of job j, in either of its two forms.
Run(j) ==
    \/ MainStart(j)
    \/ MainExtract(j)
    \/ MainBeginLang(j)
    \/ MainTranslateBlock(j)
    \/ MainBeginExport(j)
    \/ MainExport(j)
    \/ MainComplete(j)
    \/ MainFinally(j)
    \/ GraphStart(j)
    \/ GraphExtract(j)
    \/ GraphTranslateNode(j)
    \/ GraphBeginLang(j)
    \/ GraphTranslateBlock(j)
    \/ GraphBeginExport(j)
    \/ GraphExport(j)
    \/ GraphComplete(j)
    \/ GraphCleanup(j)

\* The same system, with the background task of every accepted job scheduled
\* for as long as it has a step to take, and every capability call returning
\* or raising (each action is one completed call).
FairSpec == Init /\ [][Next]_vars /\ \A j \in JobIds : WF_vars(Run(j))

(* -------------------------- concurrent jobs --------------------------- *)
\* Two submissions whose runs interleave step by step.  The requests and the
\* documents are the short ones: one language, one format, at most one block,
\* of plain style.
ConcJobIds == {"job1", "job2"}
ConcLanguages == { <<"spanish">>, <<"german">> }
ConcFormats == { <<"docx">> }
ConcDocs ==
    { d \in Extractions :
        Len(d) <= 1 /\ \A k \in 1..Len(d) : d[k].style = "Normal" }

InitConc ==
    /\ jobs_db = <<>>
    /\ input_dir = {}
    /\ output_dir = {}
    /\ task = [j \in ConcJobIds |-> IdleTask]
    /\ calls = [j \in ConcJobIds |-> <<>>]
    /\ http_response = NoResponse
    /\ clean_io = NotCleaning

NextConc ==
    \E j \in ConcJobIds :
        \/ /\ Submit(j)
           /\ task'[j].languages \in ConcLanguages
           /\ task'[j].formats \in ConcFormats
        \/ Reject(j)
        \/ MainStart(j)
        \/ MainExtract(j) /\ task'[j].paragraphs \in ConcDocs
        \/ MainBeginLang(j)
        \/ MainTranslateBlock(j)
        \/ MainBeginExport(j)
        \/ MainExport(j)
        \/ MainComplete(j)
        \/ MainFinally(j)
        \/ GraphStart(j)
        \/ GraphExtract(j) /\ task'[j].paragraphs \in ConcDocs
        \/ GraphTranslateNode(j)
        \/ GraphBeginLang(j)
        \/ GraphTranslateBlock(j)
        \/ GraphBeginExport(j)
        \/ GraphExport(j)
        \/ GraphComplete(j)
        \/ GraphCleanup(j)
        \/ GetStatus(j)
        \/ Download(j)

ConcSpec == InitConc /\ [][NextConc]_vars

(* ----------------------- _clean_text on its own ----------------------- *)
\* The characters of a value: printable, space, a whitespace character that
\* is not printable (a tab), a control character.
CleanChars == {"a", " ", "t", "x"}
\* The values handed to _clean_text: None, or a string, the empty one included.
CleanInputs == {Absence} \cup { Present(<<>> \o s) : s \in SeqsUpTo(CleanChars, MaxTextLen) }

CleanInit ==
    /\ jobs_db = <<>>
    /\ input_dir = {}
    /\ output_dir = {}
    /\ task = [j \in JobIds |-> IdleTask]
    /\ calls = [j \in JobIds |-> <<>>]
    /\ http_response = NoResponse
    /\ clean_io \in [value : CleanInputs, results : {<<>>}]

\* _clean_text applied to the value, then to its own result.
CleanText ==
    /\ Len(clean_io.results) < 2
    /\ LET arg == IF clean_io.results = <<>> THEN ValueOf(clean_io.value)
                  ELSE clean_io.results[Len(clean_io.results)]
       IN  clean_io' = [clean_io EXCEPT !.results = Append(@, _clean_text(arg))]
    /\ UNCHANGED <<jobs_db, input_dir, output_dir, task, calls, http_response>>

CleanNext == CleanText

CleanSpec == CleanInit /\ [][CleanNext]_vars

(* ============================== claims ================================ *)
Record(j) == jobs_db[j]
Log(j) == calls[j]
Ended(j) == task[j].pc = "done"
HasMessage(rec) == rec.message \notin {Absent, ""}
IsTranslate(c) == c.op = "translate"
IsExport(c) == c.op = "export"
\* The positions in a job's log of the capability calls that ended its run in
\* failure: a call that raised, or an extraction that returned no block.
Failures(j) ==
    { k \in 1..Len(Log(j)) :
        LET c == Log(j)[k]
        IN  /\ c.op \in {"extract", "translate", "export"}
            /\ (c.raised \/ (c.op = "extract" /\ c.blocks = 0)) }
\* The translated block lists a run holds: the one being built and, in the
\* graph, those stored per language.
Outputs(j) ==
    {task[j].translated} \cup
    { task[j].state.translations[k].paras : k \in 1..Len(task[j].state.translations) }
Pairs(j) ==
    { <<task[j].languages[a], task[j].formats[b]>> :
        a \in 1..Len(task[j].languages), b \in 1..Len(task[j].formats) }

\* C1: the progress of a Job Record never decreases from one write to the
\* next, in either pipeline and for any number of languages and blocks.
C1_ProgressNeverDecreases ==
    [][\A j \in DOMAIN jobs_db : jobs_db'[j].progress >= jobs_db[j].progress]_vars

\* C1 witness: a job of two languages and two blocks has gone through every
\* translation update and reached 100.
C1_Witness ==
    \E j \in DOMAIN jobs_db :
        /\ Record(j).progress = 100
        /\ Len(task[j].languages) = 2 /\ Len(task[j].paragraphs) = 2
        /\ task[j].pc = "m_finally"

\* C2: once a Job Record has complete = TRUE, no step changes its status,
\* progress, message, error or complete fields.
C2_CompleteIsFinal ==
    [][\A j \in DOMAIN jobs_db :
          jobs_db[j].complete =>
              /\ jobs_db'[j].status = jobs_db[j].status
              /\ jobs_db'[j].progress = jobs_db[j].progress
              /\ jobs_db'[j].message = jobs_db[j].message
              /\ jobs_db'[j].error = jobs_db[j].error
              /\ jobs_db'[j].complete = jobs_db[j].complete]_vars

\* C2 witness: a run has ended, its record complete, after the cleanup
\* removed the source file.
C2_Witness ==
    \E j \in DOMAIN jobs_db :
        /\ Record(j).complete /\ Ended(j) /\ j \notin input_dir
        /\ \E k \in 1..Len(Log(j)) : Log(j)[k].op = "remove"

\* C3: in every reachable state, a Job Record with error = TRUE has
\* complete = TRUE.
C3_ErrorImpliesComplete ==
    \A j \in DOMAIN jobs_db : Record(j).error => Record(j).complete

\* C3 witness: a record with error = TRUE, written after a failed call.
C3_Witness ==
    \E j \in DOMAIN jobs_db : Record(j).error /\ Failures(j) # {}

\* C4: a Job Record with status Completed has progress 100, error = FALSE and
\* an artifact in storage for every requested (language, format) pair.
C4_CompletedHasAllArtifacts ==
    \A j \in DOMAIN jobs_db :
        Record(j).status = "Completed" =>
            /\ Record(j).progress = 100
            /\ ~Record(j).error
            /\ \A pr \in Pairs(j) : <<j, pr[1], pr[2]>> \in output_dir

\* C5: when a run has ended after a failed extraction, translation or export,
\* the Job Record has status Failed, complete and error TRUE and a non-empty
\* message.
C5_FailureIsRecorded ==
    \A j \in DOMAIN jobs_db :
        (Ended(j) /\ Failures(j) # {}) =>
            /\ Record(j).status = "Failed"
            /\ Record(j).complete /\ Record(j).error
            /\ HasMessage(Record(j))

EmptyDocumentMessages ==
    {"Empty or unreadable document", "Document appears to be empty or unreadable."}
TranslatingStatuses ==
    {"Translating"} \cup {"Translating " \o Title(l) : l \in {"spanish", "german"}}
ExtractedNothing(j) ==
    \E k \in 1..Len(Log(j)) :
        Log(j)[k].op = "extract" /\ ~Log(j)[k].raised /\ Log(j)[k].blocks = 0

\* C6: a job whose extraction returns no block makes no translate or export
\* call, never shows a Translating status, and ends Failed with the message of
\* an empty or unreadable document.
C6_EmptyExtractionFails ==
    \A j \in DOMAIN jobs_db :
        ExtractedNothing(j) =>
            /\ \A k \in 1..Len(Log(j)) : ~IsTranslate(Log(j)[k]) /\ ~IsExport(Log(j)[k])
            /\ Record(j).status \notin TranslatingStatuses
            /\ task[j].state.status # "Translating"
            /\ Ended(j) => /\ Record(j).status = "Failed"
                           /\ Record(j).message \in EmptyDocumentMessages

\* What C7 says of the translated output: at the position of every block of
\* empty text stands a block of empty text with that block's style.
EmptyBlocksPassThrough(j) ==
    \A out \in Outputs(j) :
        \A i \in 1..Len(out) :
            task[j].paragraphs[i].text = <<>> =>
                out[i] = [text |-> <<>>, style |-> task[j].paragraphs[i].style]

C8_TranslationFailureIsFatal ==
    \A j \in DOMAIN jobs_db :
        \A k \in 1..Len(Log(j)) :
            (IsTranslate(Log(j)[k]) /\ Log(j)[k].raised) =>
                /\ \A m \in (k + 1)..Len(Log(j)) :
                      ~IsTranslate(Log(j)[m]) /\ ~IsExport(Log(j)[m])
                /\ Ended(j) => /\ Record(j).status = "Failed"
                               /\ Record(j).error /\ Record(j).complete
                               /\ Record(j).message \in
                                      {"Featherless API request failed",
                                       "Unexpected error: API Error"}

\* C9: no export call precedes a translate call of the same job, and a job
\* with a failed translate call has no artifact in storage.
C9_AllTranslationsBeforeExports ==
    \A j \in DOMAIN jobs_db :
        /\ \A a, b \in 1..Len(Log(j)) :
              (a < b /\ IsExport(Log(j)[a])) => ~IsTranslate(Log(j)[b])
        /\ (\E k \in 1..Len(Log(j)) : IsTranslate(Log(j)[k]) /\ Log(j)[k].raised)
              => \A t \in output_dir : t[1] # j

NoRepeats(s) == \A a, b \in 1..Len(s) : s[a] = s[b] => a = b

\* C10: when an export call raised (for a job naming no language or format
\* twice), the artifacts of the pairs exported before it exist, none exists
\* for the failing pair or a later one, and the run ends with the record
\* Failed and a message; with two languages and two formats and the failure
\* on the last pair, exactly three artifacts exist.
C10_ExportFailureKeepsEarlierArtifacts ==
    \A j \in DOMAIN jobs_db :
        \A k \in 1..Len(Log(j)) :
            (/\ IsExport(Log(j)[k]) /\ Log(j)[k].raised
             /\ NoRepeats(task[j].languages) /\ NoRepeats(task[j].formats)) =>
                LET before == { <<j, Log(j)[m].lang, Log(j)[m].fmt>> :
                                  m \in { n \in 1..(k - 1) : IsExport(Log(j)[n]) } }
                    mine == { t \in output_dir : t[1] = j }
                IN  /\ mine = before
                    /\ (Len(task[j].languages) = 2 /\ Len(task[j].formats) = 2
                        /\ Cardinality(before) = 3) => Cardinality(mine) = 3
                    /\ Ended(j) => /\ Record(j).status = "Failed"
                                   /\ Record(j).error /\ Record(j).complete
                                   /\ HasMessage(Record(j))

\* The calls a run has made to delete its source document.
Removals(j) == SelectSeq(Log(j), LAMBDA c : c.op = "remove")
TerminalStatuses == {"Completed", "Failed"}

\* C11: a run deletes its source document exactly once however it ends (one
\* removal call is made, never a second, and a run that has ended has made
\* it), and it makes that call only after the terminal state, Completed or
\* Failed with complete = TRUE, has been written to the Job Record.
C11_SourceRemovedOnceAfterTerminalWrite ==
    \A j \in DOMAIN jobs_db :
        /\ Len(Removals(j)) <= 1
        /\ Ended(j) => Len(Removals(j)) = 1
        /\ Len(Removals(j)) = 1 =>
              /\ Record(j).complete
              /\ Record(j).status \in TerminalStatuses

\* C12: a download request is answered with an artifact only for a job whose
\* record has complete = TRUE and error = FALSE; a job that is Queued, running
\* or Failed is never served one, even when a file of that name exists.
C12_DownloadOnlyWhenCompleted ==
    \A job_id \in LookupIds, language \in LangTokens, file_format \in DownloadFormats :
        download_translation(job_id, language, file_format).code = 200 =>
            /\ job_id \in DOMAIN jobs_db
            /\ Record(job_id).complete
            /\ ~Record(job_id).error
            /\ Record(job_id).status = "Completed"

\* A request the service must refuse, in the words of C13: the file's
\* extension is not a supported input, or no token of the languages
\* parameter names a supported language, or none of the formats parameter a
\* supported format.
Refused(ext, languages, formats) ==
    \/ ext \notin SUPPORTED_INPUTS
    \/ \A k \in 1..Len(languages) : StripLower(languages[k]) \notin SUPPORTED_LANGS
    \/ \A k \in 1..Len(formats) : StripLower(formats[k]) \notin SUPPORTED_OUTPUTS

\* C13: a submission that is refused (handled under a job id that is new, as
\* uuid4 gives) is answered with HTTP 400 and leaves the system as it was: no
\* Job Record is created, no source file stored, no run scheduled, no artifact
\* written and no call made.
C13_RejectedSubmissionChangesNothing ==
    [][\A j \in JobIds :
          j \notin DOMAIN jobs_db =>
              \A ext \in RequestExts,
                 languages \in LanguageParams, formats \in FormatParams :
                  (translate_document(j, ext, languages, formats)
                     /\ Refused(ext, languages, formats)) =>
                      /\ http_response'.code = 400
                      /\ UNCHANGED <<jobs_db, input_dir, output_dir, task, calls>>]_vars

\* C13 witness: a submission has been answered with HTTP 400 and there is
\* neither a record, nor a stored file, nor a scheduled run.
C13_Witness ==
    /\ http_response.code = 400
    /\ jobs_db = <<>> /\ input_dir = {} /\ output_dir = {}
    /\ \A j \in JobIds : task[j].pc = "idle" /\ calls[j] = <<>>

ExportingStatuses ==
    {"Exporting"} \cup {"Exporting " \o Title(l) : l \in {"spanish", "german"}}
\* The phase a status text stands for, by its place in the order Queued,
\* Extracting, Translating, Exporting, then Completed or Failed.
PhaseOf(status) ==
    CASE status = "Queued" -> 0
      [] status \in {"Extracting text", "Processing"} -> 1
      [] status \in TranslatingStatuses -> 2
      [] status \in ExportingStatuses -> 3
      [] status \in TerminalStatuses -> 4

\* C14: the phase shown by a Job Record only moves forward through Queued,
\* Extracting, Translating, Exporting, Completed (or to Failed): no write
\* takes the status back to a phase it has left, for any number of languages.
C14_PhaseOnlyMovesForward ==
    [][\A j \in DOMAIN jobs_db :
          PhaseOf(jobs_db'[j].status) >= PhaseOf(jobs_db[j].status)]_vars

\* C15: once a submission has been accepted under a job id, a status lookup
\* of that id never answers not-found, and as long as the run is scheduled
\* but has written nothing the record reads Queued, progress 0, complete and
\* error FALSE: the record is registered before the run is scheduled.
C15_RecordRegisteredBeforeRun ==
    \A j \in JobIds :
        /\ (task[j].pc # "idle" \/ http_response = [code |-> 200, detail |-> j]) =>
              get_status(j).code = 200
        /\ task[j].pc = "scheduled" =>
              /\ get_status(j).detail.status = "Queued"
              /\ get_status(j).detail.progress = 0
              /\ ~get_status(j).detail.complete
              /\ ~get_status(j).detail.error

\* C15 witness: a run is scheduled and has not started, and the status lookup
\* of its id answers with the Queued record.
C15_Witness ==
    \E j \in JobIds :
        /\ task[j].pc = "scheduled"
        /\ http_response = [code |-> 200, detail |-> j]
        /\ get_status(j) = [code |-> 200, detail |-> QueuedRecord(Record(j).languages)]

\* The progress C16 states for block idx (0-based) of n blocks in the
\* language at position lang_idx of total_langs: the truncation of
\* 10 + ((lang_idx + idx / n) / total_langs) * 70.
StatedProgress(lang_idx, idx, n, total_langs) ==
    10 + (70 * (lang_idx * n + idx)) \div (n * total_langs)

\* C16: while a job is translating, the progress written after block idx of
\* the language at position lang_idx is StatedProgress of them, and the
\* progress of a record in the Translating phase that has had such a write
\* lies in the band 10..80.
C16_TranslationProgressFormula ==
    \A j \in DOMAIN jobs_db :
        /\ (task[j].pc \in {"m_block", "m_export"} /\ task[j].idx >= 1) =>
              /\ Record(j).progress =
                    StatedProgress(task[j].lang_idx, task[j].idx - 1,
                                   Len(task[j].paragraphs), Len(task[j].languages))
              /\ Record(j).progress \in 10..80
        /\ (task[j].pc \in {"g_lang", "g_block"} /\ task[j].lang_idx >= 1) =>
              Record(j).progress \in 10..80

\* C17: the write that takes a Job Record to Failed leaves its progress at
\* the value it had, neither reset nor advanced; when the failure comes in
\* the Extracting phase (an empty or failed extraction) that value is the
\* floor written on entering the phase, between 5 and 10.
C17_FailedKeepsProgress ==
    [][\A j \in DOMAIN jobs_db :
          (jobs_db'[j].status = "Failed" /\ jobs_db[j].status # "Failed") =>
              /\ jobs_db'[j].progress = jobs_db[j].progress
              /\ PhaseOf(jobs_db[j].status) = 1 => jobs_db'[j].progress \in 5..10]_vars

\* C17 witness: a job failed by a translate call after an earlier block had
\* advanced its progress; the record is Failed and shows that progress.
C17_Witness ==
    \E j \in DOMAIN jobs_db :
        /\ Record(j).status = "Failed" /\ Record(j).progress > 10
        /\ Log(j)[Len(Log(j))].op = "translate" /\ Log(j)[Len(Log(j))].raised

\* C17 witness, empty extraction: the record is Failed at the floor.
C17_WitnessEmptyExtraction ==
    \E j \in DOMAIN jobs_db :
        /\ ExtractedNothing(j)
        /\ Record(j).status = "Failed" /\ Record(j).progress = 5

IsPrefix(s, t) == Len(s) <= Len(t) /\ \A k \in 1..Len(s) : s[k] = t[k]
\* The pairs <<outer[a], inner[b]>> in the order of two nested loops.
Nested(outer, inner) ==
    [k \in 1..(Len(outer) * Len(inner)) |->
        <<outer[((k - 1) \div Len(inner)) + 1], inner[((k - 1) % Len(inner)) + 1]>>]
\* A sequence without the later occurrences of its elements.
FirstOccurrences(s) ==
    LET kept == SelectSeq([k \in 1..Len(s) |-> k],
                          LAMBDA k : \A m \in 1..(k - 1) : s[m] # s[k])
    IN  [i \in 1..Len(kept) |-> s[kept[i]]]
\* The 0-based indices of a job's blocks in extraction order: all of them,
\* and those whose text is not empty.
BlockIndices(j) == [i \in 1..Len(task[j].paragraphs) |-> i - 1]
NonEmptyBlockIndices(j) ==
    SelectSeq(BlockIndices(j), LAMBDA i : strip(task[j].paragraphs[i + 1].text) # <<>>)
\* The <<language, block index>> of a job's translate calls and the
\* <<language, format>> of its export calls, in the order they were made.
TranslateOrder(j) ==
    LET made == SelectSeq(Log(j), IsTranslate)
    IN  [k \in 1..Len(made) |-> <<made[k].lang, made[k].idx>>]
ExportOrder(j) ==
    LET made == SelectSeq(Log(j), IsExport)
    IN  [k \in 1..Len(made) |-> <<made[k].lang, made[k].fmt>>]

\* C18: the translate calls of a job go language by language in the order of
\* the request and, within a language, block by block in extraction order
\* (over all blocks, or over the blocks of non-empty text); its export calls
\* go language by language and, within a language, format by format in the
\* order of the request; and when an export call has just been made for a
\* language, every block of non-empty text has had a translate call for that
\* language return, and the list handed to an export has one entry per
\* extracted block.
C18_CallsFollowRequestOrder ==
    \A j \in DOMAIN jobs_db :
        LET translated == TranslateOrder(j)
            exported == ExportOrder(j)
            nonempty == NonEmptyBlockIndices(j)
            n == Len(Log(j))
        IN  /\ \/ IsPrefix(translated, Nested(task[j].languages, BlockIndices(j)))
               \/ IsPrefix(translated, Nested(task[j].languages, nonempty))
            /\ \/ IsPrefix(exported, Nested(task[j].languages, task[j].formats))
               \/ IsPrefix(exported,
                           Nested(FirstOccurrences(task[j].languages), task[j].formats))
            /\ (n > 0 /\ IsExport(Log(j)[n])) =>
                  \A b \in 1..Len(nonempty) :
                      \E m \in 1..(n - 1) :
                          /\ IsTranslate(Log(j)[m]) /\ ~Log(j)[m].raised
                          /\ Log(j)[m].lang = Log(j)[n].lang
                          /\ Log(j)[m].idx = nonempty[b]
            /\ task[j].pc = "m_fmt" => Len(task[j].translated) = Len(task[j].paragraphs)
            /\ task[j].pc = "g_fmt" =>
                  \A k \in 1..Len(task[j].state.translations) :
                      Len(task[j].state.translations[k].paras) = Len(task[j].paragraphs)

\* C18 witness: a job of two different languages, two formats and two blocks
\* has made its four translate calls and its four export calls.
C18_Witness ==
    \E j \in DOMAIN jobs_db :
        /\ task[j].languages = <<"spanish", "german">>
        /\ Len(task[j].formats) = 2 /\ Len(task[j].paragraphs) = 2
        /\ Len(TranslateOrder(j)) = 4 /\ Len(ExportOrder(j)) = 4

Started(j) == task[j].pc \notin {"idle", "scheduled"}
Terminal(j) ==
    /\ j \in DOMAIN jobs_db
    /\ Record(j).complete
    /\ Record(j).status \in TerminalStatuses

\* C19: every job whose run has started eventually has a Job Record with
\* complete = TRUE and status Completed or Failed, when the run keeps being
\* scheduled and every call returns or raises.
C19_StartedRunReachesTerminal ==
    \A j \in JobIds : Started(j) ~> Terminal(j)

\* What belongs to job o: its record (or the absence of one), its source
\* file, its artifacts, its run and the calls of its run.
Footprint(o) ==
    << IF o \in DOMAIN jobs_db THEN <<jobs_db[o]>> ELSE <<>>,
       o \in input_dir,
       { t \in output_dir : t[1] = o },
       task[o],
       calls[o] >>
ExtractCalls(j) == SelectSeq(Log(j), LAMBDA c : c.op = "extract")
\* The artifacts the export calls of job j's own run returned from.
Exported(j) ==
    { <<j, Log(j)[k].lang, Log(j)[k].fmt>> :
        k \in { m \in 1..Len(Log(j)) : IsExport(Log(j)[m]) /\ ~Log(j)[m].raised } }

\* C20: with two jobs running concurrently, every step is the step of one
\* job and leaves everything that belongs to the other as it was: the other's
\* record, source file, artifacts, run and calls; every artifact written is
\* keyed by the job of the step and comes from an export call of that job's
\* run; and a job id, once scheduled, is never scheduled again and has at most
\* one run (one extraction).  So the record and the artifacts of a job are
\* those of its own steps alone, whatever the interleaving.
C20_JobsDoNotInterfere ==
    [][\E j \in ConcJobIds :
          /\ \A o \in ConcJobIds \ {j} : Footprint(o)' = Footprint(o)
          /\ \A t \in output_dir' \ output_dir : t[1] = j
          /\ \A o \in ConcJobIds :
                /\ { t \in output_dir' : t[1] = o } \subseteq Exported(o)'
                /\ task[o].pc # "idle" => task'[o].pc \notin {"idle", "scheduled"} \/ task'[o] = task[o]
                /\ Len(ExtractCalls(o)') <= 1]_vars

\* C20 witness: both jobs have run to Completed, each with its own artifact,
\* one in each pipeline.
C20_Witness ==
    /\ DOMAIN jobs_db = ConcJobIds
    /\ \A j \in ConcJobIds : Record(j).status = "Completed" /\ Ended(j)
    /\ \A j \in ConcJobIds : \E t \in output_dir : t[1] = j
    /\ \E j \in ConcJobIds : task[j].state.status = "Completed"
    /\ \E j \in ConcJobIds : task[j].state.status = "Starting"

\* A removal of the source document that raised.
FailedRemoval == [op |-> "remove", raised |-> TRUE]

\* C21: a step in which the deletion of the source document fails, taken
\* after the terminal state has been written, leaves the Job Record's status,
\* error, complete, progress and message exactly as they were.
C21_CleanupFailureKeepsRecord ==
    [][\A j \in DOMAIN jobs_db :
          (/\ jobs_db[j].complete
           /\ calls'[j] = Append(calls[j], FailedRemoval)) =>
              /\ jobs_db'[j].status = jobs_db[j].status
              /\ jobs_db'[j].error = jobs_db[j].error
              /\ jobs_db'[j].complete = jobs_db[j].complete
              /\ jobs_db'[j].progress = jobs_db[j].progress
              /\ jobs_db'[j].message = jobs_db[j].message]_vars

\* C21 witness: a job Completed at progress 100 whose source document is
\* still stored after the run has ended, its removal having failed.
C21_Witness ==
    \E j \in DOMAIN jobs_db :
        /\ Ended(j) /\ j \in input_dir
        /\ Log(j)[Len(Log(j))] = FailedRemoval
        /\ Record(j).status = "Completed" /\ Record(j).progress = 100
        /\ ~Record(j).error /\ Record(j).complete

\* C22: the languages an accepted submission hands to the pipeline are
\* supported languages and none appears twice, and no (language, block) is
\* translated and no (language, format) exported more than once in a job.
C22_LanguagesAreAnOrderedSet ==
    \A j \in DOMAIN jobs_db :
        /\ \A k \in 1..Len(task[j].languages) : task[j].languages[k] \in SUPPORTED_LANGS
        /\ NoRepeats(task[j].languages)
        /\ NoRepeats(TranslateOrder(j))
        /\ NoRepeats(task[j].formats) => NoRepeats(ExportOrder(j))

\* C23: a translate call on non-empty text returns the translated text or
\* fails; it never returns without one.  So every block of non-empty text
\* that a run holds as translated has a non-empty translation, and a job is
\* Completed only with such a translation for every one of them.
C23_TranslateReturnsTextOrFails ==
    \A j \in DOMAIN jobs_db :
        \A out \in Outputs(j) :
            \A i \in 1..Len(out) :
                strip(task[j].paragraphs[i].text) # <<>> => out[i].text # <<>>

\* C24: for every value, None and the empty string included, _clean_text
\* returns a string, never None, and _clean_text of that result is the same
\* string.
C24_CleanTextIdempotentAndTotal ==
    /\ \A k \in 1..Len(clean_io.results) :
          /\ clean_io.results[k] \in Seq(CleanChars)
          /\ clean_io.results[k] # None
    /\ Len(clean_io.results) = 2 => clean_io.results[2] = clean_io.results[1]

\* C24 witness: a value with a control character before a space has been
\* cleaned twice, the first cleaning having changed it to a non-empty string.
C24_Witness ==
    /\ clean_io.value = Present(<<"x", " ", "a">>)
    /\ Len(clean_io.results) = 2
    /\ clean_io.results[1] = <<"a">>

\* C24 witness, absent value: None has been cleaned twice, to the empty string.
C24_WitnessNone ==
    /\ clean_io.value = Absence
    /\ clean_io.results = << <<>>, <<>> >>

====
